---- MODULE Spec2Model ----
(***************************************************************************)
(* Zone resolver service (resources/server.py).                            *)
(*                                                                         *)
(* Strings are modelled by their characters or fields:                     *)
(*   - a request path is a sequence of one-character strings;              *)
(*   - an address string "a.b.c.d" is the tuple <<a, b, c, d>>;            *)
(*   - a CIDR string "a.b.c.d/p" is the tuple <<a, b, c, d, p>>;           *)
(*   - a JSON text is the sequence of its tokens.                          *)
(* A parsed address is the pair of its 16-bit halves [hi, lo].             *)
(***************************************************************************)
EXTENDS Integers, Sequences, FiniteSets, TLC

\* ------------------------------------------------------------------ bounds
NumReqs == 2
MaxSignals == 2

\* ------------------------------------------------------- the static table
Rec(cidr, zone, zoneId) ==
    [CIDRBlock |-> cidr, AvailabilityZone |-> zone, AvailabilityZoneId |-> zoneId]

SourceTable ==
    << Rec(<<192, 168, 0, 0, 19>>,   "eu-central-1b", "euc1-az3"),
       Rec(<<192, 168, 32, 0, 19>>,  "eu-central-1a", "euc1-az2"),
       Rec(<<192, 168, 64, 0, 19>>,  "eu-central-1c", "euc1-az1"),
       Rec(<<192, 168, 96, 0, 19>>,  "eu-central-1b", "euc1-az3"),
       Rec(<<192, 168, 128, 0, 19>>, "eu-central-1a", "euc1-az2"),
       Rec(<<192, 168, 160, 0, 19>>, "eu-central-1c", "euc1-az1") >>

\* Other contents of SUBNETS_DATA: overlapping ranges, a repeated CIDR block,
\* an entry without one of its keys, and CIDR strings ip_network rejects.
OverlapTable ==
    << Rec(<<192, 168, 0, 0, 16>>,  "eu-central-1a", "euc1-az2"),
       Rec(<<192, 168, 64, 0, 19>>, "eu-central-1c", "euc1-az1") >>

RepeatTable ==
    << Rec(<<192, 168, 64, 0, 19>>, "eu-central-1c", "euc1-az1"),
       Rec(<<192, 168, 0, 0, 19>>,  "eu-central-1b", "euc1-az3"),
       Rec(<<192, 168, 64, 0, 19>>, "eu-central-1a", "euc1-az2") >>

MissingKeyTables ==
    { << SourceTable[1],
         [CIDRBlock |-> <<192, 168, 32, 0, 19>>, AvailabilityZone |-> "eu-central-1a"] >>,
      << [AvailabilityZone |-> "eu-central-1b", AvailabilityZoneId |-> "euc1-az3"] >>,
      << [CIDRBlock |-> <<192, 168, 0, 0, 19>>, AvailabilityZoneId |-> "euc1-az3"] >> }

BadCidrTables ==
    { << SourceTable[1], Rec(<<192, 168, 33, 0, 19>>, "eu-central-1a", "euc1-az2") >>,
      << Rec(<<192, 168, 0, 0, 33>>, "eu-central-1b", "euc1-az3") >>,
      << Rec(<<192, 168, 256, 0, 19>>, "eu-central-1b", "euc1-az3") >> }

Tables == {SourceTable, OverlapTable, RepeatTable} \cup MissingKeyTables \cup BadCidrTables

\* ------------------------------------------------------ ipaddress module
Pow2(n) == 2 ^ n

ValidOctets(s) == \A i \in 1..4 : s[i] \in 0..255

Halves(s) == [hi |-> s[1] * 256 + s[2], lo |-> s[3] * 256 + s[4]]

\* ipaddress.ip_address(str): the parsed address, or ValueError.
ipaddress_ip_address(s) ==
    IF Len(s) = 4 /\ ValidOctets(s)
    THEN [ok |-> TRUE, ip |-> Halves(s)]
    ELSE [ok |-> FALSE, ip |-> [hi |-> 0, lo |-> 0]]

\* The host bits of address a under prefix length p are all zero.
HostBitsZero(a, p) ==
    IF p <= 16
    THEN a.hi % Pow2(16 - p) = 0 /\ a.lo = 0
    ELSE a.lo % Pow2(32 - p) = 0

\* ipaddress.ip_network(str), strict: the network, or ValueError.
ipaddress_ip_network(s) ==
    IF /\ Len(s) = 5
       /\ ValidOctets(s)
       /\ s[5] \in 0..32
       /\ HostBitsZero(Halves(s), s[5])
    THEN [ok |-> TRUE, net |-> [addr |-> Halves(s), prefix |-> s[5]]]
    ELSE [ok |-> FALSE, net |-> [addr |-> [hi |-> 0, lo |-> 0], prefix |-> 0]]

\* `ip in network`: the address and the network agree on the prefix bits.
InNetwork(ip, net) ==
    IF net.prefix <= 16
    THEN ip.hi \div Pow2(16 - net.prefix) = net.addr.hi \div Pow2(16 - net.prefix)
    ELSE /\ ip.hi = net.addr.hi
         /\ ip.lo \div Pow2(32 - net.prefix) = net.addr.lo \div Pow2(32 - net.prefix)

\* ------------------------------------------------ CIDR_MAPPINGS (a dict)
\* A dict is the sequence of its items in insertion order; storing under a
\* key already present replaces the value and keeps the key's position.
DictSet(d, k, v) ==
    IF \E j \in DOMAIN d : d[j].key = k
    THEN [j \in DOMAIN d |-> IF d[j].key = k THEN [key |-> k, val |-> v] ELSE d[j]]
    ELSE Append(d, [key |-> k, val |-> v])

RECURSIVE LoadFrom(_, _, _)
LoadFrom(data, i, acc) ==
    IF i > Len(data) THEN [exc |-> "none", map |-> acc]
    ELSE LET subnet == data[i] IN
         IF "CIDRBlock" \notin DOMAIN subnet THEN [exc |-> "KeyError", map |-> <<>>]
         ELSE LET n == ipaddress_ip_network(subnet.CIDRBlock) IN
              IF ~n.ok THEN [exc |-> "ValueError", map |-> <<>>]
              ELSE IF "AvailabilityZone" \notin DOMAIN subnet
                   THEN [exc |-> "KeyError", map |-> <<>>]
              ELSE IF "AvailabilityZoneId" \notin DOMAIN subnet
                   THEN [exc |-> "KeyError", map |-> <<>>]
              ELSE LoadFrom(data, i + 1,
                            DictSet(acc, n.net,
                                    [AvailabilityZone |-> subnet.AvailabilityZone,
                                     AvailabilityZoneId |-> subnet.AvailabilityZoneId]))

\* The dict comprehension of the module body.
BuildMappings(data) == LoadFrom(data, 1, <<>>)

Unset == [tag |-> "unset"]
None == [tag |-> "None"]

RECURSIVE FirstItem(_, _, _)
FirstItem(ip, mappings, j) ==
    IF j > Len(mappings) THEN None
    ELSE IF InNetwork(ip, mappings[j].key) THEN mappings[j].val
    ELSE FirstItem(ip, mappings, j + 1)

_get_zone_data(ip_address_str, mappings) ==
    LET parsed == ipaddress_ip_address(ip_address_str) IN
    IF ~parsed.ok THEN None
    ELSE FirstItem(parsed.ip, mappings, 1)

\* ------------------------------------------------------------ requests
Signals == {"SIGINT", "SIGTERM"}
Commands == {"GET", "POST"}

healthz == <<"/", "h", "e", "a", "l", "t", "h", "z">>
readyz == <<"/", "r", "e", "a", "d", "y", "z">>
HealthPaths == {healthz, readyz}

\* The request targets a client may send (self.path is never empty).
Paths ==
    HealthPaths \cup
    { healthz \o <<"/">>, <<"/">>, <<"/", "/">>, <<"a">>, <<"/", "a">> }

\* What the resolver seam _get_ip_address hands back: an address string, or
\* an exception.  The last address string is one ip_address rejects.
AddressStrings ==
    { <<192, 168, 0, 1>>, <<192, 168, 64, 5>>, <<10, 0, 0, 1>>, <<192, 168, 0, 256>> }

ResolverExceptions == {"gaierror", "Exception"}

\* str.startswith('/')
StartsWithSlash(p) == Len(p) >= 1 /\ p[1] = "/"

\* str.strip('/')
RECURSIVE LStrip(_)
LStrip(p) == IF p # <<>> /\ Head(p) = "/" THEN LStrip(Tail(p)) ELSE p

RECURSIVE RStrip(_)
RStrip(p) ==
    IF p # <<>> /\ p[Len(p)] = "/" THEN RStrip(SubSeq(p, 1, Len(p) - 1)) ELSE p

Strip(p) == RStrip(LStrip(p))

\* ----------------------------------------------------------- responses
\* A payload dict is the sequence of its <<key, value>> items.
\* json.dumps(payload): the tokens of the JSON text.
Punct(c) == [tok |-> "punct", v |-> c]
Str(s) == [tok |-> "string", v |-> s]

RECURSIVE DumpItems(_, _)
DumpItems(payload, i) ==
    IF i > Len(payload) THEN <<>>
    ELSE (IF i > 1 THEN <<Punct(",")>> ELSE <<>>)
         \o << Str(payload[i][1]), Punct(":"), Str(payload[i][2]) >>
         \o DumpItems(payload, i + 1)

json_dumps(payload) == <<Punct("{")>> \o DumpItems(payload, 1) \o <<Punct("}")>>

Response(status_code, ctype, text) ==
    [status |-> status_code, ctype |-> ctype, text |-> text]

NoResponse == Response(0, "", <<>>)

send_json_response(status_code, payload) ==
    Response(status_code, "application/json", json_dumps(payload))

send_error_response(status_code, message) ==
    send_json_response(status_code, << <<"error", message>> >>)

send_healthy_response == send_json_response(200, << <<"status", "ok">> >>)

\* BaseHTTPRequestHandler.send_error, which answers a request whose method
\* the handler class defines no do_<METHOD> for.
send_error(status_code, message) ==
    Response(status_code, "text/html;charset=utf-8",
             << [tok |-> "markup", v |-> "<!DOCTYPE HTML>"], [tok |-> "text", v |-> message] >>)

\* do_GET without the special case of line 45.
do_GET_early_no_health(path) ==
    IF ~StartsWithSlash(path) THEN send_error_response(400, "Invalid path")
    ELSE IF Strip(path) = <<>>
         THEN send_error_response(404,
                "Not Found. Please provide a FQDN in the path, e.g., /my.database.com")
    ELSE NoResponse

\* do_GET, lines 45-56: the response sent before any resolution, or
\* NoResponse when the request goes on to be resolved.
do_GET_early(path) ==
    IF path \in HealthPaths THEN send_healthy_response
    ELSE IF ~StartsWithSlash(path) THEN send_error_response(400, "Invalid path")
    ELSE IF Strip(path) = <<>>
         THEN send_error_response(404,
                "Not Found. Please provide a FQDN in the path, e.g., /my.database.com")
    ELSE NoResponse

\* do_GET, lines 64-72: the response after the zone lookup.
zone_response(zone_data) ==
    IF zone_data # None
    THEN send_json_response(200, << <<"zone", zone_data.AvailabilityZone>>,
                                    <<"zoneId", zone_data.AvailabilityZoneId>> >>)
    ELSE send_error_response(404, "Zone not found for the given FQDN's IP")

\* A resolution failure reported as an internal error.
gaierror_response_500 == send_error_response(500, "Internal Server Error")

\* do_GET, lines 74-76.
gaierror_response == send_error_response(404, "FQDN not found or could not be resolved")

\* do_GET, lines 77-79.
exception_response == send_error_response(500, "Internal Server Error")

\* --------------------------------------------------------------- state
VARIABLES
    SUBNETS_DATA,      \* the static table of the module body
    CIDR_MAPPINGS,     \* the dict built from it
    critical,          \* whether logging.critical was called at start-up
    pcMain,            \* where the main thread is
    installed,         \* the signals whose handler is shutdown_handler
    sigPending,        \* signals delivered whose handler has not run yet
    sigCount,          \* signals delivered so far
    handlerRuns,       \* calls of shutdown_handler so far
    thr,               \* each httpd.shutdown thread's position
    shutdown_request,  \* BaseServer.__shutdown_request
    is_shut_down,      \* BaseServer.__is_shut_down (an Event)
    ready,             \* what selector.select returned (dead once tested)
    arrived,           \* connections made to the listening socket so far
    accepted,          \* connections accepted so far; the latest is being handled
    connOpen,          \* the client of the handled connection is still there
    command, path,     \* self.command, self.path
    fqdn, ip_address, zone_data,   \* the locals of do_GET
    raised,            \* exceptions raised while handling the request
    resp,              \* the response being sent
    sendCtx,           \* where the send was called from
    wire,              \* what was written to the connection
    outcome,           \* "answered" once the response is complete, "abandoned" if given up
    finished,          \* requests whose handling has ended
    sigBeforeServe,    \* history: a handled signal arrived before serve_forever
    sigDuring          \* history: a handled signal arrived while this request was in flight

vars == << SUBNETS_DATA, CIDR_MAPPINGS, critical, pcMain, installed, sigPending,
           sigCount, handlerRuns, thr, shutdown_request, is_shut_down, ready,
           arrived, accepted, connOpen, command, path, fqdn, ip_address,
           zone_data, raised, resp, sendCtx, wire, outcome, finished, sigBeforeServe,
           sigDuring >>

tableVars == << SUBNETS_DATA, CIDR_MAPPINGS, critical >>
signalVars == << installed, sigPending, sigCount, handlerRuns, sigBeforeServe, sigDuring >>
serverVars == << thr, shutdown_request, is_shut_down >>
queueVars == << arrived, accepted >>
requestVars == << connOpen, command, path, fqdn, ip_address, zone_data, raised,
                  resp, sendCtx, wire, outcome, finished >>

Threads == 1..MaxSignals

\* The main thread is inside the handling of a request.
HandlingPcs == {"parse", "dns", "lookup", "headers", "body"}
\* The process is gone.
DeadPcs == {"exit1", "traceback", "killed", "exited"}
\* The module body and run() up to the second signal.signal call.
StartingPcs == {"load", "create", "sigint", "sigterm"}

Init ==
    /\ SUBNETS_DATA \in Tables
    /\ CIDR_MAPPINGS = <<>>
    /\ critical = FALSE
    /\ pcMain = "load"
    /\ installed = {}
    /\ sigPending = {}
    /\ sigCount = 0
    /\ handlerRuns = 0
    /\ thr = [t \in Threads |-> "none"]
    /\ shutdown_request = FALSE
    /\ is_shut_down = FALSE
    /\ ready = FALSE
    /\ arrived = 0
    /\ accepted = 0
    /\ connOpen = FALSE
    /\ command = ""
    /\ path = <<>>
    /\ fqdn = <<>>
    /\ ip_address = <<>>
    /\ zone_data = Unset
    /\ raised = {}
    /\ resp = NoResponse
    /\ sendCtx = ""
    /\ wire = <<>>
    /\ outcome = ""
    /\ finished = 0
    /\ sigBeforeServe = FALSE
    /\ sigDuring = FALSE

\* ------------------------------------------------------------ start-up
\* Lines 28-38: build CIDR_MAPPINGS; a KeyError is logged as critical and
\* ends the process with sys.exit(1); any other exception is not caught and
\* ends it with a traceback.
LoadTable ==
    /\ pcMain = "load"
    /\ LET r == BuildMappings(SUBNETS_DATA) IN
       /\ CIDR_MAPPINGS' = r.map
       /\ critical' = (r.exc = "KeyError")
       /\ pcMain' = CASE r.exc = "none" -> "create"
                      [] r.exc = "KeyError" -> "exit1"
                      [] OTHER -> "traceback"
    /\ UNCHANGED << SUBNETS_DATA, signalVars, serverVars, ready, queueVars, requestVars >>

\* Line 123: the server object; its socket is bound and listening from here on.
CreateServer ==
    /\ pcMain = "create"
    /\ pcMain' = "sigint"
    /\ UNCHANGED << tableVars, signalVars, serverVars, ready, queueVars, requestVars >>

\* Lines 130 and 131.
InstallHandler ==
    /\ pcMain \in {"sigint", "sigterm"}
    /\ installed' = installed \cup {IF pcMain = "sigint" THEN "SIGINT" ELSE "SIGTERM"}
    /\ pcMain' = IF pcMain = "sigint" THEN "sigterm" ELSE "serve"
    /\ UNCHANGED << tableVars, sigPending, sigCount, handlerRuns,
                    sigBeforeServe, sigDuring, serverVars, ready, queueVars, requestVars >>

\* ------------------------------------------------------- serve_forever
\* Line 134, serve_forever: self.__is_shut_down.clear().
ServeForever ==
    /\ pcMain = "serve"
    /\ is_shut_down' = FALSE
    /\ pcMain' = "loop"
    /\ UNCHANGED << tableVars, signalVars, thr, shutdown_request, ready, queueVars,
                    requestVars >>

\* while not self.__shutdown_request
LoopTest ==
    /\ pcMain = "loop"
    /\ pcMain' = IF shutdown_request THEN "finally" ELSE "select"
    /\ UNCHANGED << tableVars, signalVars, serverVars, ready, queueVars, requestVars >>

\* ready = selector.select(poll_interval): a queued connection, or a timeout.
Select ==
    /\ pcMain = "select"
    /\ ready' = (arrived > accepted)
    /\ pcMain' = "check"
    /\ UNCHANGED << tableVars, signalVars, serverVars, queueVars, requestVars >>

\* if self.__shutdown_request: break / if ready: self._handle_request_noblock()
AfterSelect ==
    /\ pcMain = "check"
    /\ pcMain' = IF shutdown_request THEN "finally"
                 ELSE IF ready THEN "accept" ELSE "loop"
    /\ ready' = FALSE
    /\ UNCHANGED << tableVars, signalVars, serverVars, queueVars, requestVars >>

\* _handle_request_noblock: get_request() accepts the oldest queued connection,
\* and the handler runs on this same thread (HTTPServer, line 119).
Accept ==
    /\ pcMain = "accept"
    /\ accepted' = accepted + 1
    /\ connOpen' = TRUE
    /\ pcMain' = "parse"
    /\ UNCHANGED << tableVars, signalVars, serverVars, ready, arrived, command, path,
                    fqdn, ip_address, zone_data, raised, resp, sendCtx, wire, outcome,
                    finished >>

\* finally: self.__shutdown_request = False
FinallyReset ==
    /\ pcMain = "finally"
    /\ shutdown_request' = FALSE
    /\ pcMain' = "set"
    /\ UNCHANGED << tableVars, signalVars, thr, is_shut_down, ready, queueVars,
                    requestVars >>

\* finally: self.__is_shut_down.set(); serve_forever returns.
FinallySet ==
    /\ pcMain = "set"
    /\ is_shut_down' = TRUE
    /\ pcMain' = "stopped"
    /\ UNCHANGED << tableVars, signalVars, thr, shutdown_request, ready, queueVars,
                    requestVars >>

\* Line 135: "Server has shut down."; run returns and the process ends, and
\* its daemon threads with it.
ServerHasShutDown ==
    /\ pcMain = "stopped"
    /\ pcMain' = "exited"
    /\ UNCHANGED << tableVars, signalVars, serverVars, ready, queueVars, requestVars >>

\* --------------------------------------------------------- the handler
\* Start sending response r from context ctx: "lib" (the base class), "pre"
\* (do_GET before its try), "try" (inside the try) or "exc" (an except clause).
StartSend(r, ctx) ==
    /\ resp' = r
    /\ sendCtx' = ctx
    /\ pcMain' = "headers"

\* handle_one_request reads the request line and dispatches on the method:
\* RequestHandler (line 42) defines do_GET alone, so any other method is
\* answered by the base class's send_error(501).  do_GET, lines 45-58.
HandleRequest ==
    /\ pcMain = "parse"
    /\ \E c \in Commands, p \in Paths :
         /\ command' = c
         /\ path' = p
         /\ IF c # "GET"
            THEN /\ StartSend(send_error(501, "Unsupported method"), "lib")
                 /\ fqdn' = fqdn
            ELSE IF do_GET_early(p) # NoResponse
            THEN /\ StartSend(do_GET_early(p), "pre")
                 /\ fqdn' = fqdn
            ELSE /\ fqdn' = Strip(p)
                 /\ pcMain' = "dns"
                 /\ UNCHANGED << resp, sendCtx >>
    /\ UNCHANGED << tableVars, signalVars, serverVars, ready, queueVars, connOpen,
                    ip_address, zone_data, raised, wire, outcome, finished >>

\* Line 60: socket.gethostbyname returns an address string or raises.
DnsReturn ==
    /\ pcMain = "dns"
    /\ \/ \E a \in AddressStrings :
            /\ ip_address' = a
            /\ pcMain' = "lookup"
            /\ UNCHANGED << raised, resp, sendCtx >>
       \/ \E e \in ResolverExceptions :
            /\ raised' = raised \cup {e}
            /\ StartSend(IF e = "gaierror" THEN gaierror_response
                         ELSE exception_response, "exc")
            /\ UNCHANGED ip_address
    /\ UNCHANGED << tableVars, signalVars, serverVars, ready, queueVars, connOpen,
                    command, path, fqdn, zone_data, wire, outcome, finished >>

\* A lookup that takes the matched item out of the shared dict.
ZoneLookup_consuming ==
    /\ pcMain = "lookup"
    /\ zone_data' = _get_zone_data(ip_address, CIDR_MAPPINGS)
    /\ CIDR_MAPPINGS' = SelectSeq(CIDR_MAPPINGS, LAMBDA item : item.val # zone_data')
    /\ StartSend(zone_response(zone_data'), "try")
    /\ UNCHANGED << SUBNETS_DATA, critical, signalVars, serverVars, ready, queueVars,
                    connOpen, command, path, fqdn, ip_address, raised, wire, outcome,
                    finished >>

\* Lines 63-72: the lookup reads CIDR_MAPPINGS and picks the response.
ZoneLookup ==
    /\ pcMain = "lookup"
    /\ zone_data' = _get_zone_data(ip_address, CIDR_MAPPINGS)
    /\ StartSend(zone_response(zone_data'), "try")
    /\ UNCHANGED << tableVars, signalVars, serverVars, ready, queueVars, connOpen,
                    command, path, fqdn, ip_address, raised, wire, outcome, finished >>

\* The handling of the request ends with outcome o.
Finish(o) ==
    /\ outcome' = o
    /\ finished' = finished + 1
    /\ pcMain' = "close"

\* A write to the connection raised (the client is gone).  Inside the try,
\* line 77 catches it and sends the 500; anywhere else it leaves do_GET, and
\* _handle_request_noblock reports it and closes the connection.
SendRaises ==
    /\ raised' = raised \cup {"OSError"}
    /\ IF sendCtx = "try"
       THEN /\ StartSend(exception_response, "exc")
            /\ UNCHANGED << outcome, finished >>
       ELSE /\ Finish("abandoned")
            /\ UNCHANGED << resp, sendCtx >>
    /\ wire' = wire

\* send_json_response, lines 83-85: the status line and the headers.
SendHeaders ==
    /\ pcMain = "headers"
    /\ IF connOpen
       THEN /\ wire' = Append(wire, [status |-> resp.status, ctype |-> resp.ctype])
            /\ pcMain' = "body"
            /\ UNCHANGED << raised, resp, sendCtx, outcome, finished >>
       ELSE SendRaises
    /\ UNCHANGED << tableVars, signalVars, serverVars, ready, arrived, accepted,
                    connOpen, command, path, fqdn, ip_address, zone_data >>

\* send_json_response, line 86: the body.
SendBody ==
    /\ pcMain = "body"
    /\ IF connOpen
       THEN /\ wire' = Append(wire, [text |-> resp.text])
            /\ Finish("answered")
            /\ UNCHANGED << raised, resp, sendCtx >>
       ELSE SendRaises
    /\ UNCHANGED << tableVars, signalVars, serverVars, ready, arrived, accepted,
                    connOpen, command, path, fqdn, ip_address, zone_data >>

\* shutdown_request(request): the connection is closed and the handler gone;
\* service_actions() does nothing and the loop goes round.
CloseRequest ==
    /\ pcMain = "close"
    /\ connOpen' = FALSE
    /\ command' = ""
    /\ path' = <<>>
    /\ fqdn' = <<>>
    /\ ip_address' = <<>>
    /\ zone_data' = Unset
    /\ raised' = {}
    /\ resp' = NoResponse
    /\ sendCtx' = ""
    /\ wire' = <<>>
    /\ outcome' = ""
    /\ sigDuring' = FALSE
    /\ pcMain' = "loop"
    /\ UNCHANGED << tableVars, installed, sigPending, sigCount, handlerRuns,
                    sigBeforeServe, serverVars, ready, queueVars, finished >>

\* ------------------------------------------------------ the environment
\* A client connects; the connection waits in the listen queue.
Arrive ==
    /\ pcMain \notin {"load", "create"} \cup DeadPcs
    /\ arrived < NumReqs
    /\ arrived' = arrived + 1
    /\ UNCHANGED << tableVars, pcMain, signalVars, serverVars, ready, accepted,
                    requestVars >>

\* The client of the request being handled goes away.
ClientDisconnect ==
    /\ pcMain \in {"dns", "lookup", "headers", "body"}
    /\ connOpen
    /\ connOpen' = FALSE
    /\ UNCHANGED << tableVars, pcMain, signalVars, serverVars, ready, queueVars,
                    command, path, fqdn, ip_address, zone_data, raised, resp,
                    sendCtx, wire, outcome, finished >>

\* SIGINT or SIGTERM reaches the process.  With shutdown_handler installed the
\* signal is noted for the main thread; before that, it ends the process.
Signal ==
    /\ pcMain \notin DeadPcs
    /\ sigCount < MaxSignals
    /\ \E s \in Signals :
         /\ sigCount' = sigCount + 1
         /\ IF s \in installed
            THEN /\ sigPending' = sigPending \cup {s}
                 /\ sigBeforeServe' = (sigBeforeServe \/ pcMain = "serve")
                 /\ sigDuring' = (sigDuring \/ pcMain \in HandlingPcs)
                 /\ pcMain' = pcMain
            ELSE /\ pcMain' = "killed"
                 /\ UNCHANGED << sigPending, sigBeforeServe, sigDuring >>
    /\ UNCHANGED << tableVars, installed, handlerRuns, serverVars, ready, queueVars,
                    requestVars >>

\* ------------------------------------------------------------- shutdown
\* A handler that ends the process itself, as sys.exit would.
shutdown_handler_exits ==
    /\ pcMain \notin DeadPcs \cup {"dns"}
    /\ \E s \in sigPending :
         /\ sigPending' = sigPending \ {s}
         /\ handlerRuns' = handlerRuns + 1
    /\ pcMain' = "exited"
    /\ UNCHANGED << tableVars, installed, sigCount, sigBeforeServe, sigDuring,
                    serverVars, ready, queueVars, requestVars >>

\* A handler that calls httpd.shutdown() on the main thread, which then waits
\* for an event only the main thread's own serve loop sets.
shutdown_handler_blocking ==
    /\ pcMain \notin DeadPcs \cup {"dns"}
    /\ \E s \in sigPending :
         /\ sigPending' = sigPending \ {s}
         /\ handlerRuns' = handlerRuns + 1
    /\ shutdown_request' = TRUE
    /\ pcMain' = IF is_shut_down THEN pcMain ELSE "blocked"
    /\ UNCHANGED << tableVars, installed, sigCount, sigBeforeServe, sigDuring,
                    thr, is_shut_down, ready, queueVars, requestVars >>

\* Lines 125-128, run on the main thread once it is back in the interpreter
\* (not while it is blocked inside gethostbyname): a daemon thread is started
\* to call httpd.shutdown, and the handler returns.
shutdown_handler ==
    /\ pcMain \notin DeadPcs \cup {"dns"}
    /\ \E s \in sigPending :
         /\ sigPending' = sigPending \ {s}
         /\ handlerRuns' = handlerRuns + 1
         /\ thr' = [thr EXCEPT ![handlerRuns + 1] = "start"]
    /\ UNCHANGED << tableVars, pcMain, installed, sigCount, sigBeforeServe, sigDuring,
                    shutdown_request, is_shut_down, ready, queueVars, requestVars >>

\* httpd.shutdown: self.__shutdown_request = True
ShutdownSetFlag(t) ==
    /\ pcMain \notin DeadPcs
    /\ thr[t] = "start"
    /\ shutdown_request' = TRUE
    /\ thr' = [thr EXCEPT ![t] = "wait"]
    /\ UNCHANGED << tableVars, pcMain, signalVars, is_shut_down, ready, queueVars,
                    requestVars >>

\* httpd.shutdown: self.__is_shut_down.wait()
ShutdownWait(t) ==
    /\ pcMain \notin DeadPcs
    /\ thr[t] = "wait"
    /\ is_shut_down
    /\ thr' = [thr EXCEPT ![t] = "done"]
    /\ UNCHANGED << tableVars, pcMain, signalVars, shutdown_request, is_shut_down, ready,
                    queueVars, requestVars >>

\* -------------------------------------------------------- specification
\* The serving steps of the main thread other than the return of the resolver.
ServeStep ==
    \/ LoopTest \/ Select \/ AfterSelect \/ Accept \/ HandleRequest
    \/ ZoneLookup \/ SendHeaders \/ SendBody \/ CloseRequest

MainThread ==
    \/ LoadTable \/ CreateServer \/ InstallHandler \/ ServeForever
    \/ ServeStep \/ DnsReturn
    \/ FinallyReset \/ FinallySet \/ ServerHasShutDown

ShutdownThread == \E t \in Threads : ShutdownSetFlag(t) \/ ShutdownWait(t)

Environment == Arrive \/ ClientDisconnect \/ Signal

Next == MainThread \/ shutdown_handler \/ ShutdownThread \/ Environment

Spec == Init /\ [][Next]_vars

\* The service as shipped: SUBNETS_DATA is the table of lines 19-26.
InitShipped == Init /\ SUBNETS_DATA = SourceTable

\* The main thread keeps running, every resolution returns, pending signal
\* handlers get run and a started thread is scheduled.
FairSpec ==
    /\ InitShipped
    /\ [][Next]_vars
    /\ WF_vars(MainThread)
    /\ WF_vars(shutdown_handler)
    /\ WF_vars(ShutdownThread)

\* ================================================================ claims

\* What a complete response r puts on the connection.
Sent(r) == << [status |-> r.status, ctype |-> r.ctype], [text |-> r.text] >>

JsonWire(status_code, payload) ==
    << [status |-> status_code, ctype |-> "application/json"],
       [text |-> json_dumps(payload)] >>

ErrorWire(status_code, message) == JsonWire(status_code, << <<"error", message>> >>)

\* The network of record i of a table, and whether address string a lies in it.
RecordHolds(data, i, a) ==
    /\ ipaddress_ip_address(a).ok
    /\ InNetwork(ipaddress_ip_address(a).ip, ipaddress_ip_network(data[i].CIDRBlock).net)

RecordZone(data, i) ==
    [AvailabilityZone |-> data[i].AvailabilityZone,
     AvailabilityZoneId |-> data[i].AvailabilityZoneId]

\* The request has been handled to its end and its response is complete.
Answered == pcMain = "close" /\ outcome = "answered"

\* ---------------------------------------------------------------- C1
\* C1: while a request is blocked in _get_ip_address and another connection
\* is waiting, the server can take a serving step that is not the return of
\* that resolution (no shutdown being under way).
C1_NoHeadOfLineBlocking ==
    (pcMain = "dns" /\ arrived > accepted /\ sigCount = 0) => ENABLED ServeStep

\* ---------------------------------------------------------------- C2
\* C2: a request in flight when SIGINT or SIGTERM arrives is never cut short:
\* the process stays in its handling until it is finished, the serve loop is
\* left only with every accepted request finished, and a finished request
\* whose client is still connected has its complete response on the wire.
C2_InFlightDrained ==
    /\ sigDuring => pcMain \in HandlingPcs \cup {"close"}
    /\ pcMain \in {"finally", "set", "stopped", "exited"} =>
          (finished = accepted /\ command = "")
    /\ (pcMain = "close" /\ connOpen) => (outcome = "answered" /\ wire = Sent(resp))

\* C2 witness: a signal arrived while this request was in flight, shutdown has
\* been requested, and the request has its complete response.
C2_Witness ==
    /\ Answered
    /\ sigDuring
    /\ shutdown_request
    /\ wire = Sent(resp)

\* ---------------------------------------------------------------- C3
\* Both handlers are installed (line 131 is done) and the process is alive or
\* has left run() in the normal way.
HandlersInstalled == pcMain \notin StartingPcs \cup {"exit1", "traceback", "killed"}

\* C3: once a signal has reached an installed shutdown_handler, the serve loop
\* stops and "Server has shut down." is reached, whenever the signal came and
\* however many came, given that every resolution returns.
C3_ShutdownCompletes ==
    (HandlersInstalled /\ (sigPending # {} \/ handlerRuns > 0)) ~> (pcMain = "exited")

\* C3 witness: the process has ended normally after repeated signals, one of
\* them delivered between the installation of the handlers and serve_forever.
C3_Witness ==
    /\ pcMain = "exited"
    /\ sigBeforeServe
    /\ handlerRuns >= 2

\* ---------------------------------------------------------------- C4
\* C4: the complete response to a GET is the one the reference mapping gives
\* for the request path and the resolver's outcome.
C4_ResponseMapping ==
    (Answered /\ command = "GET") =>
        IF path \in {healthz, readyz}
        THEN wire = JsonWire(200, << <<"status", "ok">> >>)
        ELSE IF path[1] # "/"
        THEN wire = ErrorWire(400, "Invalid path")
        ELSE IF \A i \in DOMAIN path : path[i] = "/"
        THEN wire = ErrorWire(404,
                "Not Found. Please provide a FQDN in the path, e.g., /my.database.com")
        ELSE IF "gaierror" \in raised
        THEN wire = ErrorWire(404, "FQDN not found or could not be resolved")
        ELSE IF "Exception" \in raised
        THEN wire = ErrorWire(500, "Internal Server Error")
        ELSE IF \A i \in DOMAIN SUBNETS_DATA : ~RecordHolds(SUBNETS_DATA, i, ip_address)
        THEN wire = ErrorWire(404, "Zone not found for the given FQDN's IP")
        ELSE \E i \in DOMAIN SUBNETS_DATA :
                /\ RecordHolds(SUBNETS_DATA, i, ip_address)
                /\ wire = JsonWire(200,
                            << <<"zone", SUBNETS_DATA[i].AvailabilityZone>>,
                               <<"zoneId", SUBNETS_DATA[i].AvailabilityZoneId>> >>)

\* C4 witness: a resolution failure has been answered.
C4_Witness ==
    /\ Answered
    /\ command = "GET"
    /\ "gaierror" \in raised
    /\ wire[1].status = 404

\* ---------------------------------------------------------------- C5
\* C5: the lookup returns the zone of the first record of SUBNETS_DATA whose
\* range contains the address, and not-found when no record's range does.
C5_FirstMatchInTableOrder ==
    zone_data # Unset =>
        IF \E i \in DOMAIN SUBNETS_DATA : RecordHolds(SUBNETS_DATA, i, ip_address)
        THEN LET first == CHOOSE i \in DOMAIN SUBNETS_DATA :
                             /\ RecordHolds(SUBNETS_DATA, i, ip_address)
                             /\ \A j \in 1..(i - 1) : ~RecordHolds(SUBNETS_DATA, j, ip_address)
             IN zone_data = RecordZone(SUBNETS_DATA, first)
        ELSE zone_data = None

\* ---------------------------------------------------------------- C6
\* C6: a request during whose handling an unanticipated exception was raised
\* (by the resolver, or by a write of the response) ends with the complete
\* 500 response, and the process is still serving.
C6_UnexpectedExceptionYields500 ==
    (pcMain = "close" /\ raised \cap {"Exception", "OSError"} # {}) =>
        (outcome = "answered" /\ wire = ErrorWire(500, "Internal Server Error"))

\* ---------------------------------------------------------------- C7
\* C7: a GET for /healthz or /readyz never starts a resolution and never reads
\* or changes the table, and its response is 200 {status: ok} whatever the
\* table is; it is complete whenever the client is still connected.
C7_HealthCheck ==
    (command = "GET" /\ path \in HealthPaths) =>
        /\ pcMain \in {"headers", "body", "close"}
        /\ fqdn = <<>> /\ ip_address = <<>> /\ zone_data = Unset
        /\ raised \subseteq {"OSError"}
        /\ CIDR_MAPPINGS = BuildMappings(SUBNETS_DATA).map
        /\ resp.status = 200
        /\ outcome = "answered" => wire = JsonWire(200, << <<"status", "ok">> >>)
        /\ (pcMain = "close" /\ connOpen) => outcome = "answered"

\* C7 witness: a health check answered by a server whose table is not the
\* shipped one.
C7_Witness ==
    /\ Answered
    /\ command = "GET"
    /\ path = healthz
    /\ SUBNETS_DATA # SourceTable
    /\ wire[1].status = 200

\* ---------------------------------------------------------------- C8
\* An entry of the table lacks a key or its CIDRBlock is no valid network.
Malformed(data) ==
    \E i \in DOMAIN data :
        \/ {"CIDRBlock", "AvailabilityZone", "AvailabilityZoneId"} \ DOMAIN data[i] # {}
        \/ ~ipaddress_ip_network(data[i].CIDRBlock).ok

\* C8: with a malformed table the process logs a critical message and exits
\* before the server exists, so no connection is ever accepted.
C8_MalformedTableIsFatal ==
    (Malformed(SUBNETS_DATA) /\ pcMain \notin {"load", "killed"}) =>
        (critical /\ pcMain = "exit1" /\ arrived = 0 /\ accepted = 0)

\* ---------------------------------------------------------------- C9
\* The keys of a JSON text that is one object of one or two string members.
ObjectKeys(text) ==
    IF /\ Len(text) = 5
       /\ text[1] = Punct("{") /\ text[2].tok = "string" /\ text[3] = Punct(":")
       /\ text[4].tok = "string" /\ text[5] = Punct("}")
    THEN << text[2].v >>
    ELSE IF /\ Len(text) = 9
            /\ text[1] = Punct("{") /\ text[2].tok = "string" /\ text[3] = Punct(":")
            /\ text[4].tok = "string" /\ text[5] = Punct(",")
            /\ text[6].tok = "string" /\ text[7] = Punct(":")
            /\ text[8].tok = "string" /\ text[9] = Punct("}")
    THEN << text[2].v, text[6].v >>
    ELSE << >>

\* C9: every complete response carries Content-Type application/json and a
\* body that is one JSON object {zone, zoneId}, {status: ok} or {error: ...}.
C9_AllResponsesJson ==
    Answered =>
        /\ wire[1].ctype = "application/json"
        /\ ObjectKeys(wire[2].text) \in { <<"zone", "zoneId">>, <<"status">>, <<"error">> }
        /\ ObjectKeys(wire[2].text) = <<"status">> => wire[2].text[4].v = "ok"

\* --------------------------------------------------------------- C10
\* The response do_GET gives a request handled alone by a freshly started
\* server: it depends on the path and the resolver's outcome only.
AloneResponse(p, exceptions, address) ==
    IF do_GET_early(p) # NoResponse THEN do_GET_early(p)
    ELSE IF "gaierror" \in exceptions THEN gaierror_response
    ELSE IF "Exception" \in exceptions THEN exception_response
    ELSE zone_response(_get_zone_data(address, BuildMappings(SUBNETS_DATA).map))

\* C10: whatever requests came before, the shared table is what start-up
\* built, and a GET's complete response is the one it would get alone.
C10_RequestsIndependent ==
    /\ pcMain \notin {"load", "killed"} => CIDR_MAPPINGS = BuildMappings(SUBNETS_DATA).map
    /\ (Answered /\ command = "GET") => wire = Sent(AloneResponse(path, raised, ip_address))

\* C10 witness: a second lookup has been answered with a zone.
C10_Witness ==
    /\ Answered
    /\ command = "GET"
    /\ finished >= 2
    /\ zone_data \notin {Unset, None}
    /\ wire[1].status = 200

====
